---- MODULE Spec2Model ----
(***************************************************************************)
(* Model of the resume parser: the Gemini field extractors with their      *)
(* retry wrapper (src/src/field_extractor.py), the file dispatcher and its *)
(* verification gate (src/src/file_parser.py, src/src/text_verifier.py),   *)
(* and the facade ResumeParserFramework.parse_resume with the              *)
(* ResumeExtractor it delegates to (src/src/resume_parser_framework.py,    *)
(* src/src/resume_extractor.py).                                           *)
(*                                                                         *)
(* A Python str is a sequence of one-character strings.  Characters that   *)
(* have no printable spelling are written by their code point ("U+00A0").  *)
(***************************************************************************)
EXTENDS Integers, Sequences, FiniteSets, TLC

(***************************************************************************)
(* Bounds of the model.                                                    *)
(***************************************************************************)
\* number of top-level invocations made one after the other
MaxInvocations == 2

(***************************************************************************)
(* Program constants.                                                      *)
(***************************************************************************)
max_retries == 5
initial_delay == 5
MIN_TEXT_LENGTH == 200
\* _MIN_PRINTABLE_RATIO = 0.8, kept as the exact fraction 4 / 5
MIN_PRINTABLE_RATIO_NUM == 4
MIN_PRINTABLE_RATIO_DEN == 5

(***************************************************************************)
(* Python str helpers.                                                     *)
(***************************************************************************)
\* characters str.strip() removes (str.isspace); U+00A0 is one of them
PyWhitespace == {" ", "\n", "\t", "\r", "U+000B", "U+000C", "U+00A0"}

RECURSIVE LStrip(_)
LStrip(s) ==
    IF s # <<>> /\ Head(s) \in PyWhitespace THEN LStrip(Tail(s)) ELSE s

RECURSIVE RStrip(_)
RStrip(s) ==
    IF s # <<>> /\ s[Len(s)] \in PyWhitespace
    THEN RStrip(SubSeq(s, 1, Len(s) - 1))
    ELSE s

\* str.strip()
Strip(s) == RStrip(LStrip(s))

\* str.startswith(p)
StartsWith(s, p) == Len(s) >= Len(p) /\ SubSeq(s, 1, Len(p)) = p

\* sub occurs in s at index i (1-based)
OccursAt(s, sub, i) ==
    i >= 1 /\ i + Len(sub) - 1 <= Len(s) /\ SubSeq(s, i, i + Len(sub) - 1) = sub

\* sub in s
Contains(s, sub) == \E i \in 1..(Len(s) - Len(sub) + 1) : OccursAt(s, sub, i)

\* s.split(sep, 1): a list of one or two parts
SplitOnce(s, sep) ==
    IF Contains(s, sep)
    THEN LET i == CHOOSE k \in 1..Len(s) :
                     /\ OccursAt(s, sep, k)
                     /\ \A j \in 1..(k - 1) : ~OccursAt(s, sep, j)
         IN  <<SubSeq(s, 1, i - 1), SubSeq(s, i + Len(sep), Len(s))>>
    ELSE <<s>>

\* s.rsplit(sep, 1): a list of one or two parts
RSplitOnce(s, sep) ==
    IF Contains(s, sep)
    THEN LET i == CHOOSE k \in 1..Len(s) :
                     /\ OccursAt(s, sep, k)
                     /\ \A j \in (k + 1)..Len(s) : ~OccursAt(s, sep, j)
         IN  <<SubSeq(s, 1, i - 1), SubSeq(s, i + Len(sep), Len(s))>>
    ELSE <<s>>

Backtick == "U+0060"
Fence == <<Backtick, Backtick, Backtick>>
Newline == <<"\n">>

(***************************************************************************)
(* json.loads, on the texts of the model.  No payload of the model holds a *)
(* digit, a sign, a backslash or an upper-case letter, so a JSON text is   *)
(* an object, an array, a string without escapes, or one of true, false,   *)
(* null.                                                                   *)
(***************************************************************************)
JsonWs == {" ", "\n", "\t", "\r"}
\* characters json rejects inside a string (strict mode)
JsonControl == {"\n", "\t", "\r", "U+000B", "U+000C", "U+0000"}

JsonFail == [ok |-> FALSE, end |-> 0, type |-> "none", pairs |-> <<>>]

RECURSIVE SkipWs(_, _)
SkipWs(s, i) == IF i <= Len(s) /\ s[i] \in JsonWs THEN SkipWs(s, i + 1) ELSE i

\* index of the closing quote of the string whose content starts at i, or 0
RECURSIVE StringEnd(_, _)
StringEnd(s, i) ==
    IF i > Len(s) THEN 0
    ELSE IF s[i] = "\"" THEN i
    ELSE IF s[i] \in JsonControl THEN 0
    ELSE StringEnd(s, i + 1)

JsonLiterals == {<<"t", "r", "u", "e">>, <<"f", "a", "l", "s", "e">>,
                 <<"n", "u", "l", "l">>}

RECURSIVE ParseValue(_, _)
RECURSIVE ParseElems(_, _, _)
RECURSIVE ParseMembers(_, _, _)

\* the value that starts at index i: where it ends (index after it), its
\* type, and its members as pairs of a key and the text of the value
ParseValue(s, i) ==
    IF i > Len(s) THEN JsonFail
    ELSE IF s[i] = "\"" THEN
        LET e == StringEnd(s, i + 1)
        IN  IF e = 0 THEN JsonFail
            ELSE [ok |-> TRUE, end |-> e + 1, type |-> "str",
                  pairs |-> <<[key |-> <<>>, val |-> SubSeq(s, i, e)]>>]
    ELSE IF s[i] = "[" THEN
        LET j == SkipWs(s, i + 1)
        IN  IF j <= Len(s) /\ s[j] = "]"
            THEN [ok |-> TRUE, end |-> j + 1, type |-> "list", pairs |-> <<>>]
            ELSE ParseElems(s, j, <<>>)
    ELSE IF s[i] = "{" THEN
        LET j == SkipWs(s, i + 1)
        IN  IF j <= Len(s) /\ s[j] = "}"
            THEN [ok |-> TRUE, end |-> j + 1, type |-> "dict", pairs |-> <<>>]
            ELSE ParseMembers(s, j, <<>>)
    ELSE IF \E lit \in JsonLiterals : OccursAt(s, lit, i) THEN
        LET lit == CHOOSE l \in JsonLiterals : OccursAt(s, l, i)
        IN  [ok |-> TRUE, end |-> i + Len(lit),
             type |-> IF Head(lit) = "n" THEN "null" ELSE "bool",
             pairs |-> <<>>]
    ELSE JsonFail

\* the elements of an array from index i (the start of an element) on;
\* an element is kept as a pair with the empty key
ParseElems(s, i, acc) ==
    LET v == ParseValue(s, i)
    IN  IF ~v.ok THEN JsonFail
        ELSE LET j == SkipWs(s, v.end)
                 acc2 == Append(acc, [key |-> <<>>,
                                      val |-> SubSeq(s, i, v.end - 1)])
             IN  IF j > Len(s) THEN JsonFail
                 ELSE IF s[j] = "]"
                 THEN [ok |-> TRUE, end |-> j + 1, type |-> "list",
                       pairs |-> acc2]
                 ELSE IF s[j] = ","
                 THEN ParseElems(s, SkipWs(s, j + 1), acc2)
                 ELSE JsonFail

\* the members of an object from index i (the start of a key) on
ParseMembers(s, i, acc) ==
    IF i > Len(s) \/ s[i] # "\"" THEN JsonFail
    ELSE
    LET ke == StringEnd(s, i + 1)
    IN  IF ke = 0 THEN JsonFail
        ELSE
        LET c == SkipWs(s, ke + 1)
        IN  IF c > Len(s) \/ s[c] # ":" THEN JsonFail
            ELSE
            LET vs == SkipWs(s, c + 1)
                v == ParseValue(s, vs)
            IN  IF ~v.ok THEN JsonFail
                ELSE
                LET j == SkipWs(s, v.end)
                    acc2 == Append(acc, [key |-> SubSeq(s, i + 1, ke - 1),
                                         val |-> SubSeq(s, vs, v.end - 1)])
                IN  IF j > Len(s) THEN JsonFail
                    ELSE IF s[j] = "}"
                    THEN [ok |-> TRUE, end |-> j + 1, type |-> "dict",
                          pairs |-> acc2]
                    ELSE IF s[j] = ","
                    THEN ParseMembers(s, SkipWs(s, j + 1), acc2)
                    ELSE JsonFail

\* json.loads(s): ok = FALSE stands for json.JSONDecodeError
JsonLoads(s) ==
    LET v == ParseValue(s, SkipWs(s, 1))
    IN  IF v.ok /\ SkipWs(s, v.end) = Len(s) + 1 THEN v ELSE JsonFail

\* set(data.keys()) of a parsed object
Keys(data) == {data.pairs[i].key : i \in 1..Len(data.pairs)}

\* data[k] (the last member named k wins), as the text of the value
RECURSIVE Lookup(_, _, _)
Lookup(pairs, k, default) ==
    IF pairs = <<>> THEN default
    ELSE IF pairs[Len(pairs)].key = k THEN pairs[Len(pairs)].val
    ELSE Lookup(SubSeq(pairs, 1, Len(pairs) - 1), k, default)

(***************************************************************************)
(* Text verifier (src/src/text_verifier.py).                               *)
(***************************************************************************)
UpperCase == <<"A", "B", "C", "D", "E", "F", "G", "H", "I", "J", "K", "L", "M",
               "N", "O", "P", "Q", "R", "S", "T", "U", "V", "W", "X", "Y", "Z">>
LowerCase == <<"a", "b", "c", "d", "e", "f", "g", "h", "i", "j", "k", "l", "m",
               "n", "o", "p", "q", "r", "s", "t", "u", "v", "w", "x", "y", "z">>
Digits == {"0", "1", "2", "3", "4", "5", "6", "7", "8", "9"}
Punctuation == {"!", "\"", "#", "$", "%", "&", "'", "(", ")", "*", "+", ",",
                "-", ".", "/", ":", ";", "<", "=", ">", "?", "@", "[", "\\",
                "]", "^", "_", Backtick, "{", "|", "}", "~"}

\* string.printable
StringPrintable ==
    {UpperCase[i] : i \in 1..26} \cup {LowerCase[i] : i \in 1..26}
        \cup Digits \cup Punctuation
        \cup {" ", "\t", "\n", "\r", "U+000B", "U+000C"}

LowerChar(c) ==
    IF \E i \in 1..26 : UpperCase[i] = c
    THEN LowerCase[CHOOSE i \in 1..26 : UpperCase[i] = c]
    ELSE c

\* str.lower()
Lower(s) == [i \in 1..Len(s) |-> LowerChar(s[i])]

RESUME_KEYWORDS ==
    << <<"e", "x", "p", "e", "r", "i", "e", "n", "c", "e">>,
       <<"e", "d", "u", "c", "a", "t", "i", "o", "n">>,
       <<"s", "k", "i", "l", "l", "s">>,
       <<"s", "u", "m", "m", "a", "r", "y">>,
       <<"p", "r", "o", "j", "e", "c", "t", "s">> >>

\* sum(c in string.printable for c in text)
PrintableCount(text) ==
    Cardinality({i \in 1..Len(text) : text[i] \in StringPrintable})

VerificationResult(e, s, k, g) ==
    [is_empty |-> e, too_short |-> s, missing_keywords |-> k,
     garbage_ratio_low |-> g]

\* VerificationResult.passed
Passed(r) ==
    ~(r.is_empty \/ r.too_short \/ r.missing_keywords \/ r.garbage_ratio_low)

IssueEmpty == "Extracted text is empty"
IssueShort == "Extracted text is too short (< 200 characters)"
IssueKeywords ==
    "None of the expected resume keywords found (experience, education, skills, summary, projects)"
IssueRatio == "Printable-character ratio is below 80%"

\* a list of issues that stops at the first one
IssuesFirstOnly(r) ==
    IF r.is_empty THEN <<IssueEmpty>>
    ELSE IF r.too_short THEN <<IssueShort>>
    ELSE IF r.missing_keywords THEN <<IssueKeywords>>
    ELSE IF r.garbage_ratio_low THEN <<IssueRatio>>
    ELSE <<>>

\* VerificationResult.issues
Issues(r) ==
    (IF r.is_empty THEN <<IssueEmpty>> ELSE <<>>)
        \o (IF r.too_short THEN <<IssueShort>> ELSE <<>>)
        \o (IF r.missing_keywords THEN <<IssueKeywords>> ELSE <<>>)
        \o (IF r.garbage_ratio_low THEN <<IssueRatio>> ELSE <<>>)

\* a verifier that runs every check on an empty text too
VerifyNoShortCircuit(text) ==
    LET lower_text == Lower(text)
        printable_count == PrintableCount(text)
        len == IF Len(text) > 1 THEN Len(text) ELSE 1
    IN  VerificationResult(
            Strip(text) = <<>>,
            Len(text) < MIN_TEXT_LENGTH,
            ~\E i \in 1..Len(RESUME_KEYWORDS) :
                Contains(lower_text, RESUME_KEYWORDS[i]),
            printable_count * MIN_PRINTABLE_RATIO_DEN
                < MIN_PRINTABLE_RATIO_NUM * len)

\* a verifier whose ratio check also fires at the threshold itself
VerifyRatioInclusive(text) ==
    IF Strip(text) = <<>>
    THEN VerificationResult(TRUE, FALSE, FALSE, FALSE)
    ELSE LET lower_text == Lower(text)
             printable_count == PrintableCount(text)
             len == IF Len(text) > 1 THEN Len(text) ELSE 1
         IN  VerificationResult(
                 FALSE,
                 Len(text) < MIN_TEXT_LENGTH,
                 ~\E i \in 1..Len(RESUME_KEYWORDS) :
                     Contains(lower_text, RESUME_KEYWORDS[i]),
                 printable_count * MIN_PRINTABLE_RATIO_DEN
                     <= MIN_PRINTABLE_RATIO_NUM * len)

\* TextVerifier.verify
Verify(text) ==
    IF Strip(text) = <<>>
    THEN VerificationResult(TRUE, FALSE, FALSE, FALSE)
    ELSE LET lower_text == Lower(text)
             printable_count == PrintableCount(text)
             len == IF Len(text) > 1 THEN Len(text) ELSE 1
         IN  VerificationResult(
                 FALSE,
                 Len(text) < MIN_TEXT_LENGTH,
                 ~\E i \in 1..Len(RESUME_KEYWORDS) :
                     Contains(lower_text, RESUME_KEYWORDS[i]),
                 printable_count * MIN_PRINTABLE_RATIO_DEN
                     < MIN_PRINTABLE_RATIO_NUM * len)

\* "; ".join(issues), as the list of its pieces
RECURSIVE Join(_, _)
Join(parts, sep) ==
    IF Len(parts) <= 1 THEN parts
    ELSE <<Head(parts), sep>> \o Join(Tail(parts), sep)

(***************************************************************************)
(* Outcomes of a call: nothing yet, a returned value, a raised exception.  *)
(* msg is the fixed head of the exception's message, detail the variable   *)
(* part of it (a list of strings), data the returned fields.               *)
(***************************************************************************)
NoResult ==
    [status |-> "none", exc |-> "", msg |-> "", detail |-> <<>>, data |-> <<>>]

Raise(exc, msg, detail) ==
    [status |-> "raise", exc |-> exc, msg |-> msg, detail |-> detail,
     data |-> <<>>]

Return(data) ==
    [status |-> "return", exc |-> "", msg |-> "", detail |-> <<>>,
     data |-> data]

MsgEmptyText == "Cannot extract fields from empty resume text."
MsgEmptyResponse == "Gemini returned an empty response"
MsgInvalidJson == "Gemini returned invalid JSON"
MsgMissingKey == "Gemini response is missing the expected key"
MsgMissingFields == "Gemini response is missing expected fields"
MsgApiFailed == "Gemini API request failed"
MsgUnavailable == "Gemini AI service is temporarily unavailable"
MsgNetwork == "Network error: could not reach the Gemini API."
MsgNotFound == "File not found"
MsgUnsupported == "Unsupported file type"
MsgVerification == "Extracted text failed verification"
MsgCorrupt == "Cannot open the file"
MsgEncrypted == "The file is encrypted or password-protected."
MsgEmptyText2 == "Gemini response returned empty or None text"
MsgParseJson == "Failed to parse Gemini response as JSON"

(***************************************************************************)
(* The remote call models.generate_content and the retry wrapper           *)
(* GeminiFieldExtractor._call_with_retry.                                  *)
(***************************************************************************)
\* what one remote call can do: answer, or raise one of the exceptions the
\* wrapper tells apart (code is the status code of an API error)
RateLimit == [exc |-> "ClientError", code |-> 429]
BadRequest == [exc |-> "ClientError", code |-> 400]
Forbidden == [exc |-> "ClientError", code |-> 403]
Unavailable == [exc |-> "ServerError", code |-> 503]
Unreachable == [exc |-> "OSError", code |-> 0]
Unexpected == [exc |-> "Exception", code |-> 0]
Answer == [exc |-> "", code |-> 200]

ClientErrors == {RateLimit, BadRequest, Forbidden}
ServerErrors == {Unavailable}

\* a loop body that goes round again whatever the attempt
RetryHandleNoBudget(attempt, o) ==
    IF o.exc = "" THEN [do |-> "return", res |-> NoResult]
    ELSE IF o.exc = "ClientError" THEN
        IF o.code = 429
        THEN [do |-> "sleep", res |-> NoResult]
        ELSE [do |-> "raise",
              res |-> Raise("ConnectionError", MsgApiFailed, <<ToString(o.code)>>)]
    ELSE IF o.exc = "ServerError" THEN [do |-> "sleep", res |-> NoResult]
    ELSE IF o.exc = "OSError" THEN
        [do |-> "raise", res |-> Raise("ConnectionError", MsgNetwork, <<>>)]
    ELSE [do |-> "raise", res |-> Raise(o.exc, "", <<>>)]

\* a wrapper that retries an unreachable service like a server error
RetryHandleRetriesNetwork(attempt, o) ==
    IF o.exc = "" THEN [do |-> "return", res |-> NoResult]
    ELSE IF o.exc = "ClientError" THEN
        IF o.code = 429 /\ attempt < max_retries
        THEN [do |-> "sleep", res |-> NoResult]
        ELSE [do |-> "raise",
              res |-> Raise("ConnectionError", MsgApiFailed, <<ToString(o.code)>>)]
    ELSE IF o.exc \in {"ServerError", "OSError"} THEN
        IF attempt < max_retries
        THEN [do |-> "sleep", res |-> NoResult]
        ELSE [do |-> "raise",
              res |-> Raise("ConnectionError",
                            IF o.exc = "OSError" THEN MsgNetwork
                            ELSE MsgUnavailable, <<>>)]
    ELSE [do |-> "raise", res |-> Raise(o.exc, "", <<>>)]

\* a wrapper that retries every client error, whatever its code
RetryHandleRetriesAnyClientError(attempt, o) ==
    IF o.exc = "" THEN [do |-> "return", res |-> NoResult]
    ELSE IF o.exc = "ClientError" THEN
        IF attempt < max_retries
        THEN [do |-> "sleep", res |-> NoResult]
        ELSE [do |-> "raise",
              res |-> Raise("ConnectionError", MsgApiFailed, <<ToString(o.code)>>)]
    ELSE IF o.exc = "ServerError" THEN
        IF attempt < max_retries
        THEN [do |-> "sleep", res |-> NoResult]
        ELSE [do |-> "raise",
              res |-> Raise("ConnectionError", MsgUnavailable, <<>>)]
    ELSE IF o.exc = "OSError" THEN
        [do |-> "raise", res |-> Raise("ConnectionError", MsgNetwork, <<>>)]
    ELSE [do |-> "raise", res |-> Raise(o.exc, "", <<>>)]

\* what the body of the for loop does with the outcome o of the call made at
\* the given attempt (0-based): return the response, sleep and go round
\* again, or raise
RetryHandle(attempt, o) ==
    IF o.exc = "" THEN [do |-> "return", res |-> NoResult]
    ELSE IF o.exc = "ClientError" THEN
        IF o.code = 429 /\ attempt < max_retries
        THEN [do |-> "sleep", res |-> NoResult]
        ELSE [do |-> "raise",
              res |-> Raise("ConnectionError", MsgApiFailed, <<ToString(o.code)>>)]
    ELSE IF o.exc = "ServerError" THEN
        IF attempt < max_retries
        THEN [do |-> "sleep", res |-> NoResult]
        ELSE [do |-> "raise",
              res |-> Raise("ConnectionError", MsgUnavailable, <<>>)]
    ELSE IF o.exc = "OSError" THEN
        [do |-> "raise", res |-> Raise("ConnectionError", MsgNetwork, <<>>)]
    ELSE [do |-> "raise", res |-> Raise(o.exc, "", <<>>)]

\* a backoff that grows by the initial delay instead of doubling
NextDelayLinear(delay) == delay + initial_delay

\* delay *= 2
NextDelay(delay) == delay * 2

\* _call_with_retry as a whole, on the outcomes outs of its remote calls in
\* order: how it ends (or "pending" when it wants a further outcome), the
\* number of calls made and the sleeps made
RECURSIVE RetryRun(_, _, _, _)
RetryRun(o_seq, att, dly, slept) ==
    IF att > max_retries
    THEN [status |-> "return", calls |-> att, sleeps |-> slept,
          res |-> NoResult]
    ELSE IF o_seq = <<>>
    THEN [status |-> "pending", calls |-> att, sleeps |-> slept,
          res |-> NoResult]
    ELSE LET h == RetryHandle(att, Head(o_seq))
         IN  IF h.do = "return"
             THEN [status |-> "return", calls |-> att + 1, sleeps |-> slept,
                   res |-> NoResult]
             ELSE IF h.do = "sleep"
             THEN RetryRun(Tail(o_seq), att + 1, NextDelay(dly),
                           Append(slept, dly))
             ELSE [status |-> "raise", calls |-> att + 1, sleeps |-> slept,
                   res |-> h.res]

CallWithRetry(o_seq) == RetryRun(o_seq, 0, initial_delay, <<>>)

(***************************************************************************)
(* What the extractors do with the response of the remote call.            *)
(***************************************************************************)
NoneText == [is_none |-> TRUE, text |-> <<>>]
Text(t) == [is_none |-> FALSE, text |-> t]

\* an unfencing that cuts at the first fence marker after the fence line
StripFenceFirstMarker(text) ==
    LET raw == Strip(text)
    IN  IF StartsWith(raw, Fence)
        THEN LET parts == SplitOnce(raw, Newline)
             IN  IF Len(parts) < 2 THEN [ok |-> FALSE, raw |-> raw]
                 ELSE [ok |-> TRUE,
                       raw |-> Strip(SplitOnce(parts[2], Fence)[1])]
        ELSE [ok |-> TRUE, raw |-> raw]

\* raw = response.text.strip() and the removal of an enclosing code fence;
\* ok = FALSE stands for the IndexError of split(...)[1]
StripFence(text) ==
    LET raw == Strip(text)
    IN  IF StartsWith(raw, Fence)
        THEN LET parts == SplitOnce(raw, Newline)
             IN  IF Len(parts) < 2 THEN [ok |-> FALSE, raw |-> raw]
                 ELSE [ok |-> TRUE,
                       raw |-> Strip(RSplitOnce(parts[2], Fence)[1])]
        ELSE [ok |-> TRUE, raw |-> raw]

\* raw[:300]
Snippet(raw) == SubSeq(raw, 1, IF Len(raw) < 300 THEN Len(raw) ELSE 300)

Quote == "\""
JsonString(s) == <<Quote>> \o s \o <<Quote>>

\* key in data, for the values json.loads returns
KeyIn(key, data) ==
    IF data.type = "dict" THEN key \in Keys(data)
    ELSE IF data.type = "list"
    THEN \E i \in 1..Len(data.pairs) : data.pairs[i].val = JsonString(key)
    ELSE Contains(SubSeq(data.pairs[1].val, 2, Len(data.pairs[1].val) - 1), key)

\* GeminiFieldExtractor.extract after the remote call, for _FIELD_KEY = key
FieldResponse(key, response) ==
    IF response.is_none \/ response.text = <<>>
    THEN Raise("ValueError", MsgEmptyResponse, <<>>)
    ELSE
    LET f == StripFence(response.text)
    IN  IF ~f.ok THEN Raise("IndexError", "list index out of range", <<>>)
        ELSE
        LET data == JsonLoads(f.raw)
        IN  IF ~data.ok
            THEN Raise("ValueError", MsgInvalidJson, Snippet(f.raw))
            ELSE IF data.type \in {"null", "bool"}
            THEN Raise("TypeError", "argument is not iterable", <<>>)
            ELSE IF ~KeyIn(key, data)
            THEN IF data.type = "dict"
                 THEN Raise("ValueError", MsgMissingKey, key)
                 ELSE Raise("AttributeError", "object has no attribute 'keys'",
                            <<>>)
            ELSE IF data.type = "dict"
            THEN Return(<<[key |-> key, val |-> Lookup(data.pairs, key, <<>>)]>>)
            ELSE Raise("TypeError", "indices must be integers", <<>>)

name == <<"n", "a", "m", "e">>
email == <<"e", "m", "a", "i", "l">>
skills == <<"s", "k", "i", "l", "l", "s">>

\* sorted(expected_keys)
ExpectedKeysSorted == <<email, name, skills>>

\* ', '.join(sorted(missing))
RECURSIVE JoinMissing(_, _)
JoinMissing(keys, present) ==
    IF keys = <<>> THEN <<>>
    ELSE IF Head(keys) \in present THEN JoinMissing(Tail(keys), present)
    ELSE LET rest == JoinMissing(Tail(keys), present)
         IN  IF rest = <<>> THEN Head(keys)
             ELSE Head(keys) \o <<",", " ">> \o rest

\* CombinedExtractor.extract after the remote call
CombinedResponse(response) ==
    IF response.is_none \/ response.text = <<>>
    THEN Raise("ValueError", MsgEmptyResponse, <<>>)
    ELSE
    LET f == StripFence(response.text)
    IN  IF ~f.ok THEN Raise("IndexError", "list index out of range", <<>>)
        ELSE
        LET data == JsonLoads(f.raw)
        IN  IF ~data.ok
            THEN Raise("ValueError", MsgInvalidJson, Snippet(f.raw))
            ELSE IF data.type # "dict"
            THEN Raise("AttributeError", "object has no attribute 'keys'", <<>>)
            ELSE IF {name, email, skills} \ Keys(data) # {}
            THEN Raise("ValueError", MsgMissingFields,
                       JoinMissing(ExpectedKeysSorted, Keys(data)))
            ELSE Return(data.pairs)

\* ResumeExtractor.extract after the remote call: a CandidateInfo
CandidateInfo(response) ==
    IF response.is_none \/ response.text = <<>>
    THEN Raise("ValueError", MsgEmptyText2, <<>>)
    ELSE
    LET f == StripFence(response.text)
    IN  IF ~f.ok THEN Raise("IndexError", "list index out of range", <<>>)
        ELSE
        LET data == JsonLoads(f.raw)
        IN  IF ~data.ok THEN Raise("ValueError", MsgParseJson, f.raw)
            ELSE IF data.type # "dict"
            THEN Raise("AttributeError", "object has no attribute 'get'", <<>>)
            ELSE Return(<<
                [key |-> name, val |-> Lookup(data.pairs, name, <<Quote, Quote>>)],
                [key |-> email, val |-> Lookup(data.pairs, email, <<Quote, Quote>>)],
                [key |-> skills, val |-> Lookup(data.pairs, skills, <<"[", "]">>)] >>)

(***************************************************************************)
(* File dispatcher (src/src/file_parser.py).                               *)
(***************************************************************************)
ExtPdf == <<".", "p", "d", "f">>
ExtDocx == <<".", "d", "o", "c", "x">>

\* _registry once pdf_parser and word_parser are imported
Registry(suffix) ==
    IF suffix = ExtPdf THEN "PDFParser"
    ELSE IF suffix = ExtDocx THEN "WordParser"
    ELSE "None"

\* ", ".join(sorted(_registry.keys()))
Supported == ExtDocx \o <<",", " ">> \o ExtPdf

\* a lookup that forgets to lower-case the suffix
ParserClassCaseSensitive(f) == Registry(f.suffix)

\* parser_cls = _registry.get(file_path.suffix.lower())
ParserClass(f) == Registry(Lower(f.suffix))

\* the checks of FileParser.parse_resume before the parser runs
Dispatched(f) ==
    IF ~f.exists THEN Raise("FileNotFoundError", MsgNotFound, <<>>)
    ELSE IF ParserClass(f) = "None"
    THEN Raise("ValueError", MsgUnsupported, Supported)
    ELSE NoResult

\* what PDFParser.parse and WordParser.parse give: the text of the document,
\* or the failure of a corrupt or of a protected file
ParserOutcome(parser, o) ==
    IF o.exc = "RuntimeError" THEN Raise("RuntimeError", MsgCorrupt, <<>>)
    ELSE IF o.exc = "PermissionError"
    THEN Raise("PermissionError", MsgEncrypted, <<>>)
    ELSE IF parser = "PDFParser" THEN Return(Strip(o.text))
    ELSE Return(o.text)

\* a gate that only warns and hands the text on
GateWarnsOnly(t) == Return(t)

\* the verification gate of FileParser.parse_resume
Gate(t) ==
    LET r == Verify(t)
    IN  IF ~Passed(r)
        THEN Raise("ValueError", MsgVerification, Join(Issues(r), "; "))
        ELSE Return(t)

(***************************************************************************)
(* The failure kinds of the design, read off the exception and the head of *)
(* its message.                                                            *)
(***************************************************************************)
Kind(r) ==
    IF r.status # "raise" THEN "none"
    ELSE IF r.exc = "ValueError" /\ r.msg = MsgEmptyText THEN "EmptyInput"
    ELSE IF r.exc = "ValueError" /\ r.msg \in {MsgEmptyResponse, MsgEmptyText2}
    THEN "EmptyResponse"
    ELSE IF r.exc = "ValueError" /\ r.msg \in {MsgInvalidJson, MsgParseJson}
    THEN "MalformedResponse"
    ELSE IF r.exc = "ValueError" /\ r.msg \in {MsgMissingKey, MsgMissingFields}
    THEN "IncompleteResponse"
    ELSE IF r.exc = "ValueError" /\ r.msg = MsgUnsupported
    THEN "UnsupportedFormat"
    ELSE IF r.exc = "ValueError" /\ r.msg = MsgVerification
    THEN "VerificationFailed"
    ELSE IF r.exc = "ConnectionError" /\ r.msg = MsgApiFailed
    THEN "ServiceError"
    ELSE IF r.exc = "ConnectionError" /\ r.msg = MsgUnavailable
    THEN "ServiceUnavailable"
    ELSE IF r.exc = "ConnectionError" /\ r.msg = MsgNetwork THEN "NetworkError"
    ELSE IF r.exc = "FileNotFoundError" THEN "NotFound"
    ELSE IF r.exc = "PermissionError" THEN "AccessDenied"
    ELSE IF r.exc = "RuntimeError" THEN "CorruptFile"
    ELSE "Uncategorized"

(***************************************************************************)
(* Inputs.                                                                 *)
(***************************************************************************)
Pad(c, n) == [i \in 1..n |-> c]

\* resume texts around the thresholds of the verifier
Texts ==
    { <<>>,
      <<" ", "\n">>,
      <<"U+00A0">>,
      <<"S", "k", "i", "l", "l", "s">>,
      Pad("U+FFFD", 3),
      <<"S", "k", "i", "l", "l", "s">> \o Pad("a", MIN_TEXT_LENGTH - 6),
      <<"S", "K", "I", "L", "L", "S">> \o Pad("a", MIN_TEXT_LENGTH - 7),
      Pad("a", MIN_TEXT_LENGTH),
      skills \o Pad(" ", 1) \o Pad("a", 153) \o Pad("U+FFFD", 40),
      skills \o Pad("a", 153) \o Pad("U+FFFD", 41) }

\* the texts handed to an extractor directly
ExtractTexts == {t \in Texts : Len(t) <= 6}

Suffixes ==
    { ExtPdf, <<".", "P", "D", "F">>, ExtDocx, <<".", "D", "o", "c", "x">>,
      <<".", "t", "x", "t">>, <<>> }

Files == [exists : BOOLEAN, suffix : Suffixes]

ParserOutcomes ==
    {[exc |-> "RuntimeError", text |-> <<>>],
     [exc |-> "PermissionError", text |-> <<>>]}
        \cup {[exc |-> "", text |-> t] : t \in Texts}

Member(k, v) == JsonString(k) \o <<":">> \o v

RECURSIVE Concat(_, _)
Concat(parts, sep) ==
    IF parts = <<>> THEN <<>>
    ELSE IF Len(parts) = 1 THEN Head(parts)
    ELSE Head(parts) \o sep \o Concat(Tail(parts), sep)

Obj(members) == <<"{">> \o Concat(members, <<",">>) \o <<"}">>

MName == Member(name, JsonString(<<"j", "o">>))
MEmail == Member(email, JsonString(<<"j", "@", "e">>))
MSkills == Member(skills, <<"[">> \o JsonString(<<"s", "q", "l">>) \o <<",", " ">>
                              \o JsonString(<<"r">>) \o <<"]">>)
\* a name that itself holds a fence marker
MFenceName == Member(name, JsonString(Fence))
MRole == Member(<<"r", "o", "l", "e">>, <<"n", "u", "l", "l">>)

Bodies ==
    { Obj(<<MName, MEmail, MSkills>>),
      Obj(<<MSkills, MRole, MEmail, MName>>),
      Obj(<<MFenceName, MEmail, MSkills>>),
      Obj(<<MName, MSkills>>),
      Obj(<<MName>>),
      Obj(<<MEmail>>),
      Obj(<<MSkills>>),
      <<"{", "}">>,
      <<"{", "\n">> \o Concat(<<MName, MEmail, MSkills>>, <<",", "\n">>)
          \o <<"\n", "}">>,
      <<"[">> \o JsonString(name) \o <<"]">>,
      JsonString(name),
      <<"n", "u", "l", "l">>,
      <<"s", "o", "r", "r", "y">>,
      <<"{">> \o JsonString(name) \o <<":">> }

Fenced(b) == Fence \o <<"j", "s", "o", "n", "\n">> \o b \o <<"\n">> \o Fence

\* the payloads the remote call answers with (response.text)
Payloads ==
    {NoneText, Text(<<>>), Text(<<" ", "\n">>), Text(Fence),
     Text(Fence \o <<"j", "s", "o", "n">>),
     Text(Fence \o Obj(<<MName, MEmail, MSkills>>) \o Fence),
     Text(Fence \o <<"\n">> \o Obj(<<MName, MEmail, MSkills>>)),
     Text(<<" ">> \o Obj(<<MName, MEmail, MSkills>>) \o <<"\n">>)}
        \cup {Text(b) : b \in Bodies}
        \cup {Text(Fenced(b)) : b \in Bodies}

FieldOps == {"name", "email", "skills"}
Ops == FieldOps \cup {"combined", "parse_resume"}

\* _FIELD_KEY of NameExtractor, EmailExtractor, SkillsExtractor
FieldKey(op) ==
    IF op = "name" THEN name ELSE IF op = "email" THEN email ELSE skills

(***************************************************************************)
(* State.                                                                  *)
(***************************************************************************)
VARIABLES
    invocations, \* number of top-level calls made so far
    op,          \* the call under way: an extractor's extract, or parse_resume
    pc,          \* where the call stands
    file,        \* parse_resume: the file named by file_path
    text,        \* the resume text (the argument of extract)
    attempt,     \* _call_with_retry: attempt
    delay,       \* _call_with_retry: delay
    sleeps,      \* the arguments of the time.sleep calls made, in order
    calls,       \* number of generate_content calls made
    outs,        \* what each of them did, in order
    response,    \* the response of the remote call
    result,      \* what the call returned or raised
    stages,      \* parse_resume: the stages run, in order
    parser_cls,  \* FileParser.parse_resume: parser_cls
    verification,\* FileParser.parse_resume: result of verifier.verify(text)
    env,         \* main: the command line and the environment of the run
    exit         \* main: how the process ended

vars == <<invocations, op, pc, file, text, attempt, delay, sleeps, calls, outs,
          response, result, stages, parser_cls, verification, env, exit>>

\* the variables of the command line run
cliVars == <<env, exit>>
\* the variables of FileParser.parse_resume
dispatchVars == <<parser_cls, verification>>

NoVerification == VerificationResult(FALSE, FALSE, FALSE, FALSE)
NoEnv == [bad_args |-> FALSE, has_arg |-> FALSE, is_file |-> FALSE,
          api_key |-> FALSE, client_ok |-> FALSE]
NoExit == [how |-> "none", code |-> 0, exc |-> "", panel |-> ""]

NoFile == [exists |-> FALSE, suffix |-> <<>>]

Init ==
    /\ invocations = 0
    /\ op = "none"
    /\ pc = "idle"
    /\ file = NoFile
    /\ text = <<>>
    /\ attempt = 0
    /\ delay = 0
    /\ sleeps = <<>>
    /\ calls = 0
    /\ outs = <<>>
    /\ response = NoneText
    /\ result = NoResult
    /\ stages = <<>>
    /\ parser_cls = "None"
    /\ verification = NoVerification
    /\ env = NoEnv
    /\ exit = NoExit

\* a fresh call: nothing of the previous one is kept
Fresh(o, first, f, t, e) ==
    /\ pc \in {"idle", "done"}
    /\ invocations < MaxInvocations
    /\ invocations' = invocations + 1
    /\ op' = o
    /\ pc' = first
    /\ file' = f
    /\ text' = t
    /\ attempt' = 0
    /\ delay' = 0
    /\ sleeps' = <<>>
    /\ calls' = 0
    /\ outs' = <<>>
    /\ response' = NoneText
    /\ result' = NoResult
    /\ stages' = <<>>
    /\ parser_cls' = "None"
    /\ verification' = NoVerification
    /\ env' = e
    /\ exit' = NoExit

\* extractor.extract(resume_text) is called on a field or combined extractor
InvokeExtract ==
    \E o \in FieldOps \cup {"combined"}, t \in ExtractTexts :
        Fresh(o, "extract", NoFile, t, NoEnv)

\* framework.parse_resume(file_path) is called
InvokeParseResume ==
    \E f \in Files : Fresh("parse_resume", "dispatch", f, <<>>, NoEnv)

Finish(r) ==
    /\ result' = r
    /\ pc' = "done"

(***************************************************************************)
(* GeminiFieldExtractor.extract and CombinedExtractor.extract.             *)
(***************************************************************************)
\* a precondition that forgets to strip
EmptyTextNoStrip(t) == t = <<>>

\* not resume_text or not resume_text.strip()
EmptyText(t) == t = <<>> \/ Strip(t) = <<>>

\* the precondition check and the entry into _call_with_retry
ExtractStart ==
    /\ pc = "extract"
    /\ op \in FieldOps \cup {"combined"}
    /\ IF EmptyText(text)
       THEN /\ Finish(Raise("ValueError", MsgEmptyText, <<>>))
            /\ UNCHANGED <<attempt, delay>>
       ELSE /\ pc' = "call"
            /\ attempt' = 0
            /\ delay' = initial_delay
            /\ UNCHANGED result
    /\ UNCHANGED <<invocations, op, file, text, sleeps, calls, outs, response,
                   stages, dispatchVars, cliVars>>

\* a loop that keeps one backoff for rate limits and leaves it alone on a
\* server error
AttemptSeparateBackoff(o, p) ==
    /\ pc = "call"
    /\ op \in FieldOps \cup {"combined"}
    /\ calls' = calls + 1
    /\ outs' = Append(outs, o)
    /\ LET h == RetryHandle(attempt, o)
       IN  IF h.do = "return"
           THEN /\ response' = p
                /\ pc' = "response"
                /\ UNCHANGED <<attempt, delay, sleeps, result>>
           ELSE IF h.do = "sleep"
           THEN /\ sleeps' = Append(sleeps, delay)
                /\ delay' = IF o \in ServerErrors THEN delay
                            ELSE NextDelay(delay)
                /\ attempt' = attempt + 1
                \* range(max_retries + 1) exhausted: the function ends
                \* without a return statement
                /\ IF attempt + 1 < max_retries + 1
                   THEN pc' = "call"
                   ELSE pc' = "response"
                /\ response' = NoneText
                /\ UNCHANGED result
           ELSE /\ Finish(h.res)
                /\ UNCHANGED <<attempt, delay, sleeps, response>>
    /\ UNCHANGED <<invocations, op, file, text, stages, dispatchVars, cliVars>>

\* one round of the for loop of _call_with_retry: the remote call does o
\* (answering with payload p when it answers)
Attempt(o, p) ==
    /\ pc = "call"
    /\ op \in FieldOps \cup {"combined"}
    /\ calls' = calls + 1
    /\ outs' = Append(outs, o)
    /\ LET h == RetryHandle(attempt, o)
       IN  IF h.do = "return"
           THEN /\ response' = p
                /\ pc' = "response"
                /\ UNCHANGED <<attempt, delay, sleeps, result>>
           ELSE IF h.do = "sleep"
           THEN /\ sleeps' = Append(sleeps, delay)
                /\ delay' = NextDelay(delay)
                /\ attempt' = attempt + 1
                \* range(max_retries + 1) exhausted: the function ends
                \* without a return statement
                /\ IF attempt + 1 < max_retries + 1
                   THEN pc' = "call"
                   ELSE pc' = "response"
                /\ response' = NoneText
                /\ UNCHANGED result
           ELSE /\ Finish(h.res)
                /\ UNCHANGED <<attempt, delay, sleeps, response>>
    /\ UNCHANGED <<invocations, op, file, text, stages, dispatchVars, cliVars>>

CallAnswers == \E p \in Payloads : Attempt(Answer, p)
CallClientError == \E o \in ClientErrors : Attempt(o, NoneText)
CallServerError == \E o \in ServerErrors : Attempt(o, NoneText)
CallOSError == Attempt(Unreachable, NoneText)
CallOtherError == Attempt(Unexpected, NoneText)

\* the rest of extract: the response is checked, unfenced, parsed, validated
ExtractFinish ==
    /\ pc = "response"
    /\ op \in FieldOps \cup {"combined"}
    /\ Finish(IF op = "combined" THEN CombinedResponse(response)
              ELSE FieldResponse(FieldKey(op), response))
    /\ UNCHANGED <<invocations, op, file, text, attempt, delay, sleeps, calls,
                   outs, response, stages, dispatchVars, cliVars>>

(***************************************************************************)
(* ResumeParserFramework.parse_resume: FileParser.parse_resume, then       *)
(* ResumeExtractor.extract.                                                *)
(***************************************************************************)
\* FileParser.parse_resume: existence and registry lookup
Dispatch ==
    /\ pc = "dispatch"
    /\ stages' = Append(stages, "dispatch")
    /\ LET r == Dispatched(file)
       IN  IF r.status = "raise" THEN Finish(r)
           ELSE pc' = "parse" /\ UNCHANGED result
    /\ parser_cls' = IF file.exists THEN ParserClass(file) ELSE "None"
    /\ UNCHANGED <<invocations, op, file, text, attempt, delay, sleeps, calls,
                   outs, response, verification, cliVars>>

\* FileParser.parse_resume: parser_cls().parse(file_path)
Parse ==
    /\ pc = "parse"
    /\ stages' = Append(stages, "parse")
    /\ \E o \in ParserOutcomes :
        LET r == ParserOutcome(parser_cls, o)
        IN  IF r.status = "raise"
            THEN Finish(r) /\ UNCHANGED text
            ELSE pc' = "verify" /\ text' = r.data /\ UNCHANGED result
    /\ UNCHANGED <<invocations, op, file, attempt, delay, sleeps, calls, outs,
                   response, dispatchVars, cliVars>>

\* FileParser.parse_resume: the verification of the extracted text
VerifyText ==
    /\ pc = "verify"
    /\ stages' = Append(stages, "verify")
    /\ verification' = Verify(text)
    /\ LET r == Gate(text)
       IN  IF r.status = "raise" THEN Finish(r)
           ELSE pc' = "extract" /\ UNCHANGED result
    /\ UNCHANGED <<invocations, op, file, text, attempt, delay, sleeps, calls,
                   outs, response, parser_cls, cliVars>>

\* ResumeExtractor.extract: the one remote call; what it raises propagates
RemoteCall(o, p) ==
    /\ pc = "extract"
    /\ op = "parse_resume"
    /\ stages' = Append(stages, "extract")
    /\ calls' = calls + 1
    /\ outs' = Append(outs, o)
    /\ IF o.exc = ""
       THEN pc' = "response" /\ response' = p /\ UNCHANGED result
       ELSE Finish(Raise(o.exc, "", <<ToString(o.code)>>)) /\ UNCHANGED response
    /\ UNCHANGED <<invocations, op, file, text, attempt, delay, sleeps,
                   dispatchVars, cliVars>>

RemoteAnswers == \E p \in Payloads : RemoteCall(Answer, p)
RemoteRaises ==
    \E o \in ClientErrors \cup ServerErrors \cup {Unreachable, Unexpected} :
        RemoteCall(o, NoneText)

\* ResumeExtractor.extract: the response becomes a CandidateInfo
Assemble ==
    /\ pc = "response"
    /\ op = "parse_resume"
    /\ stages' = Append(stages, "assemble")
    /\ Finish(CandidateInfo(response))
    /\ UNCHANGED <<invocations, op, file, text, attempt, delay, sleeps, calls,
                   outs, response, dispatchVars, cliVars>>

(***************************************************************************)
(* The command line run, main() of src/main.py.  ResumeExtractor.__init__  *)
(* takes no combined_extractor, so the call of main.py:101 raises          *)
(* TypeError whenever CombinedExtractor() was built, and no run gets past  *)
(* it: framework.parse_resume and the handlers of main.py:123-197 are not  *)
(* reached from main.                                                      *)
(***************************************************************************)
MsgNoKey == "GEMINI_API_KEY is not set."
MsgClientInit == "Failed to initialise the Gemini AI client"
MsgKwarg == "__init__() got an unexpected keyword argument"

\* a constructor that leaves the key check to the first request
GeminiInitNoKeyCheck(e) ==
    IF ~e.client_ok THEN Raise("ConnectionError", MsgClientInit, <<>>)
    ELSE Return(<<>>)

\* GeminiFieldExtractor.__init__ (CombinedExtractor()) in environment e
GeminiInit(e) ==
    IF ~e.api_key THEN Raise("EnvironmentError", MsgNoKey, <<>>)
    ELSE IF ~e.client_ok THEN Raise("ConnectionError", MsgClientInit, <<>>)
    ELSE Return(<<>>)

\* ResumeExtractor(**kwargs) in environment e: the only parameter is model
ResumeExtractorInit(kwargs, e) ==
    IF kwargs \ {"model"} # {} THEN Raise("TypeError", MsgKwarg, <<>>)
    ELSE IF ~e.api_key THEN Raise("EnvironmentError", MsgNoKey, <<>>)
    ELSE IF ~e.client_ok THEN Raise("Exception", "", <<>>)
    ELSE Return(<<>>)

\* the classes except EnvironmentError catches: EnvironmentError is OSError,
\* and ConnectionError is one of its subclasses
OSErrorFamily == {"EnvironmentError", "OSError", "ConnectionError",
                  "FileNotFoundError", "PermissionError"}

\* extractor = ResumeExtractor(combined_extractor=CombinedExtractor())
Constructed(e) ==
    LET c == GeminiInit(e)
    IN  IF c.status = "raise" THEN c
        ELSE ResumeExtractorInit({"combined_extractor"}, e)

SysExit(code, panel) ==
    [how |-> "sys.exit", code |-> code, exc |-> "SystemExit", panel |-> panel]

\* an exception that leaves main: the interpreter prints the traceback and
\* ends with status 1
Unhandled(exc) ==
    [how |-> "unhandled", code |-> 1, exc |-> exc, panel |-> ""]

\* the try statement of main.py:100-119 around the construction
ConstructExit(r) ==
    IF r.exc \in OSErrorFamily THEN SysExit(1, "Missing API Key")
    ELSE Unhandled(r.exc)

\* how the interpreter ends on a KeyboardInterrupt that leaves main: with
\* status 1, or (from Python 3.8 on) killed by SIGINT
InterruptExits ==
    {[how |-> "unhandled", code |-> 1, exc |-> "KeyboardInterrupt",
      panel |-> ""],
     [how |-> "signal", code |-> 2, exc |-> "KeyboardInterrupt",
      panel |-> ""]}

Envs == [bad_args : BOOLEAN, has_arg : BOOLEAN, is_file : BOOLEAN,
         api_key : BOOLEAN, client_ok : BOOLEAN]

\* python3 main.py ... is run
InvokeMain ==
    \E f \in Files, e \in Envs :
        /\ e.is_file => f.exists
        /\ e.bad_args => ~e.has_arg
        /\ ~e.has_arg => f = NoFile /\ ~e.is_file
        /\ Fresh("main", "args", f, <<>>, e)

mainUnchanged ==
    UNCHANGED <<invocations, op, file, text, attempt, delay, sleeps, calls,
                outs, response, stages, dispatchVars, env>>

\* main.py:49-64: argparse (which ends the process with status 2 on a bad
\* command line), the banner, and the check that a file was named
MainArgs ==
    /\ op = "main"
    /\ pc = "args"
    /\ IF env.bad_args
       THEN exit' = SysExit(2, "usage") /\ pc' = "done"
       ELSE IF ~env.has_arg
       THEN exit' = SysExit(1, "No file provided") /\ pc' = "done"
       ELSE pc' = "path" /\ UNCHANGED exit
    /\ UNCHANGED result
    /\ mainUnchanged

\* main.py:66-98: the checks of the path
MainPath ==
    /\ op = "main"
    /\ pc = "path"
    /\ IF ~file.exists
       THEN exit' = SysExit(1, "File not found") /\ pc' = "done"
       ELSE IF ~env.is_file
       THEN exit' = SysExit(1, "Not a file") /\ pc' = "done"
       ELSE IF Lower(file.suffix) \notin {ExtPdf, ExtDocx}
       THEN exit' = SysExit(1, "Unsupported format") /\ pc' = "done"
       ELSE pc' = "construct" /\ UNCHANGED exit
    /\ UNCHANGED result
    /\ mainUnchanged

\* main.py:100-119: the construction of the extractor
MainConstruct ==
    /\ op = "main"
    /\ pc = "construct"
    /\ LET r == Constructed(env)
       IN  /\ r.status = "raise"
           /\ result' = r
           /\ exit' = ConstructExit(r)
           /\ pc' = "done"
    /\ mainUnchanged

\* the user interrupts the run: none of these steps is inside a try
\* statement that catches KeyboardInterrupt
MainInterrupt ==
    /\ op = "main"
    /\ pc \in {"args", "path", "construct"}
    /\ \E x \in InterruptExits : exit' = x
    /\ pc' = "done"
    /\ UNCHANGED result
    /\ mainUnchanged

Next ==
    \/ InvokeExtract
    \/ InvokeParseResume
    \/ InvokeMain
    \/ MainArgs
    \/ MainPath
    \/ MainConstruct
    \/ MainInterrupt
    \/ ExtractStart
    \/ CallAnswers
    \/ CallClientError
    \/ CallServerError
    \/ CallOSError
    \/ CallOtherError
    \/ ExtractFinish
    \/ Dispatch
    \/ Parse
    \/ VerifyText
    \/ RemoteAnswers
    \/ RemoteRaises
    \/ Assemble

Spec == Init /\ [][Next]_vars

(***************************************************************************)
(* Properties.                                                             *)
(***************************************************************************)
ExtractOps == FieldOps \cup {"combined"}

Last(q) == q[Len(q)]
Front(q) == SubSeq(q, 1, Len(q) - 1)
Range(q) == {q[i] : i \in 1..Len(q)}
IsPrefix(q, r) == Len(q) <= Len(r) /\ SubSeq(r, 1, Len(q)) = q

AllRateLimit(q) == \A i \in 1..Len(q) : q[i] = RateLimit

\* the waits 5, 10, 20, ... before attempts 2 .. k + 1
Backoff(k) == [i \in 1..k |-> 5 * 2 ^ (i - 1)]

\* C1: in _call_with_retry, after rate-limit answers on attempts 1..k
\* (k <= 5) the wrapper is still calling, having waited 5 * 2^(i-1) before
\* attempt i + 1 and nothing before the first attempt; when attempt k + 1
\* then answers, the wrapper returns that answer after k + 1 calls and the
\* same k waits.
C1_RateLimitBackoff ==
    op \in ExtractOps =>
        /\ calls = 0 => sleeps = <<>>
        /\ (outs # <<>> /\ AllRateLimit(outs) /\ Len(outs) <= 5) =>
               /\ pc = "call"
               /\ sleeps = Backoff(Len(outs))
        /\ (outs # <<>> /\ Last(outs) = Answer /\ AllRateLimit(Front(outs))) =>
               /\ Len(outs) <= 6
               /\ calls = Len(outs)
               /\ sleeps = Backoff(Len(outs) - 1)
               /\ pc \in {"response", "done"}
               /\ pc = "response" => result = NoResult /\ response \in Payloads
               /\ result.exc # "ConnectionError"

W_C1_FiveRateLimitsThenAnswer ==
    /\ op \in ExtractOps
    /\ pc = "response"
    /\ Len(outs) = 6
    /\ AllRateLimit(Front(outs))
    /\ Last(outs) = Answer
    /\ sleeps = <<5, 10, 20, 40, 80>>

\* C2: six rate-limit answers in a row end the extraction with
\* ServiceUnavailable, a kind other than the ServiceError of the client
\* errors that are not retried, after exactly 6 calls and 5 waits.
CX_C2_BudgetExhaustedIsServiceUnavailable ==
    (op \in ExtractOps /\ Len(outs) = 6 /\ AllRateLimit(outs)) =>
        /\ pc = "done"
        /\ calls = 6
        /\ Len(sleeps) = 5
        /\ Kind(result) = "ServiceUnavailable"
        /\ Kind(result) # "ServiceError"

\* every rate-limit outcome replaced by a transient server failure
AsServerErrors(q) ==
    [i \in 1..Len(q) |-> IF q[i] = RateLimit THEN Unavailable ELSE q[i]]

\* how the wrapper stands in the current state
WrapperStatus ==
    IF pc = "call" THEN "pending"
    ELSE IF pc = "response" THEN "return"
    ELSE "raise"

\* C3: with every rate-limit outcome replaced by a transient server
\* failure, _call_with_retry makes the same number of calls and the same
\* waits and ends the same way: it returns, or it raises a failure of the
\* same kind.
CX_C3_ServerErrorsLikeRateLimits ==
    (/\ op \in ExtractOps
     /\ outs # <<>>
     /\ pc \in {"call", "response"} \/ (pc = "done" /\ Last(outs) # Answer)) =>
        LET twin == CallWithRetry(AsServerErrors(outs))
        IN  /\ twin.calls = calls
            /\ twin.sleeps = sleeps
            /\ twin.status = WrapperStatus
            /\ WrapperStatus = "raise" => Kind(twin.res) = Kind(result)

\* C4: an unreachable service ends _call_with_retry at once, at whatever
\* attempt it happens: it is the last call made, no wait follows it, and
\* the extraction fails with NetworkError.
C4_NetworkErrorNotRetried ==
    op \in ExtractOps =>
        \A i \in 1..Len(outs) :
            outs[i] = Unreachable =>
                /\ i = Len(outs)
                /\ pc = "done"
                /\ calls = i
                /\ Len(sleeps) = i - 1
                /\ Kind(result) = "NetworkError"

W_C4_UnreachableAtThirdAttempt ==
    /\ op \in ExtractOps
    /\ Len(outs) = 3
    /\ Last(outs) = Unreachable
    /\ sleeps = <<5, 10>>
    /\ pc = "done"

\* C5: a client error other than 429 ends _call_with_retry at once, at
\* whatever attempt it happens: it is the last call made, no wait follows
\* it, and the extraction fails with ServiceError.
C5_ClientErrorNotRetried ==
    op \in ExtractOps =>
        \A i \in 1..Len(outs) :
            outs[i] \in ClientErrors \ {RateLimit} =>
                /\ i = Len(outs)
                /\ pc = "done"
                /\ calls = i
                /\ Len(sleeps) = i - 1
                /\ Kind(result) = "ServiceError"

W_C5_ForbiddenAtSecondAttempt ==
    /\ op \in ExtractOps
    /\ outs = <<RateLimit, Forbidden>>
    /\ sleeps = <<5>>
    /\ pc = "done"

\* C6: parse_resume does not fail on a rate-limit or transient server
\* answer of the remote call while fewer than 5 retries were made; after
\* one rate-limit answer it calls again.
CX_C6_ParseRetriesRemoteCall ==
    (/\ op = "parse_resume"
     /\ outs # <<>>
     /\ Len(outs) <= max_retries
     /\ Last(outs) \in {RateLimit, Unavailable}) =>
        /\ result.status # "raise"
        /\ pc # "done"

PipelineOrder == <<"dispatch", "parse", "verify", "extract", "assemble">>

\* C7: parse_resume runs dispatch, text extraction, verification, field
\* extraction and assembly in this order and stops at the first failure:
\* a failure ends the invocation without a record, the remote call is made
\* only for an existing file of a registered type whose text passed
\* verification, and a record is returned only after all stages ran.
C7_StagesInOrderFirstFailureStops ==
    op = "parse_resume" =>
        /\ IsPrefix(stages, PipelineOrder)
        /\ result.status = "raise" => pc = "done" /\ result.data = <<>>
        /\ (result.status = "raise" /\ Len(stages) <= 3) =>
               calls = 0 /\ response = NoneText
        /\ calls > 0 =>
               /\ file.exists
               /\ Registry(Lower(file.suffix)) # "None"
               /\ Passed(Verify(text))
               /\ Len(stages) >= 4
        /\ calls <= 1
        /\ result.status = "return" => stages = PipelineOrder

W_C7_VerificationStopsPipeline ==
    /\ op = "parse_resume"
    /\ stages = <<"dispatch", "parse", "verify">>
    /\ result.status = "raise"
    /\ calls = 0

\* C8: when the extracted text does not pass verify, parse_resume ends with
\* a verification failure whose message holds every triggered issue, the
\* issues joined by "; "; no text is returned and no remote call is made.
C8_FailedVerificationIsHardStop ==
    LET r == Verify(text)
    IN  (op = "parse_resume" /\ "verify" \in Range(stages) /\ ~Passed(r)) =>
            /\ pc = "done"
            /\ stages = <<"dispatch", "parse", "verify">>
            /\ Kind(result) = "VerificationFailed"
            /\ r.is_empty => IssueEmpty \in Range(result.detail)
            /\ r.too_short => IssueShort \in Range(result.detail)
            /\ r.missing_keywords => IssueKeywords \in Range(result.detail)
            /\ r.garbage_ratio_low => IssueRatio \in Range(result.detail)
            /\ \A i \in 1..Len(result.detail) :
                   (i % 2 = 0) <=> (result.detail[i] = "; ")
            /\ result.data = <<>>
            /\ calls = 0

W_C8_ThreeIssuesJoined ==
    /\ op = "parse_resume"
    /\ pc = "done"
    /\ Kind(result) = "VerificationFailed"
    /\ result.detail = <<IssueShort, "; ", IssueKeywords, "; ", IssueRatio>>

\* C9: extract on a text that is empty or only white space fails with
\* EmptyInput, for a field extractor and for the combined extractor, and
\* makes no remote call and no wait.
C9_EmptyTextIsEmptyInput ==
    (op \in ExtractOps /\ pc # "extract" /\ Strip(text) = <<>>) =>
        /\ pc = "done"
        /\ Kind(result) = "EmptyInput"
        /\ calls = 0
        /\ sleeps = <<>>

W_C9_WhitespaceOnlyCombined ==
    /\ op = "combined"
    /\ text = <<" ", "\n">>
    /\ pc = "done"
    /\ Kind(result) = "EmptyInput"

\* the payload, with an enclosing fence removed when there is one, is not
\* JSON
NotJson(payload) ==
    LET f == StripFence(payload)
    IN  ~f.ok \/ ~JsonLoads(f.raw).ok

\* C10: when the remote call answers a non-empty payload that is not JSON
\* after the optional removal of a code fence, extract fails with
\* MalformedResponse and with no other kind, also when the payload starts
\* with a fence and has no line break after it.
CX_C10_NotJsonIsMalformedResponse ==
    (/\ op \in ExtractOps
     /\ pc = "done"
     /\ outs # <<>>
     /\ Last(outs) = Answer
     /\ ~response.is_none
     /\ response.text # <<>>
     /\ NotJson(response.text)) =>
        Kind(result) = "MalformedResponse"

\* the keys the extractor of the call under way requires
RequiredKeys == IF op = "combined" THEN {name, email, skills} ELSE {FieldKey(op)}

\* the remote call answered a payload that json.loads accepts
ParsedResponse ==
    /\ outs # <<>>
    /\ Last(outs) = Answer
    /\ ~response.is_none
    /\ response.text # <<>>
    /\ StripFence(response.text).ok
    /\ JsonLoads(StripFence(response.text).raw).ok

\* the keys of the parsed payload (a payload that is no object has none)
ResponseKeys ==
    LET data == JsonLoads(StripFence(response.text).raw)
    IN  IF data.type = "dict" THEN Keys(data) ELSE {}

\* C11: a parsed response that lacks a required key fails with
\* IncompleteResponse, and the message names exactly the missing keys (the
\* required keys minus the keys of the response); a response that has all
\* required keys does not fail with IncompleteResponse.
CX_C11_MissingKeysAreIncompleteResponse ==
    (op \in ExtractOps /\ pc = "done" /\ ParsedResponse) =>
        LET missing == RequiredKeys \ ResponseKeys
        IN  /\ missing # {} =>
                   /\ Kind(result) = "IncompleteResponse"
                   /\ \A k \in RequiredKeys :
                          k \in missing <=> Contains(result.detail, k)
            /\ missing = {} => Kind(result) # "IncompleteResponse"

\* what the extractor of the call under way makes of a payload
ExtractionOf(payload) ==
    IF op = "combined" THEN CombinedResponse(payload)
    ELSE IF op \in FieldOps THEN FieldResponse(FieldKey(op), payload)
    ELSE CandidateInfo(payload)

\* the payloads of the model that are JSON
JsonBodies == {b \in Bodies : JsonLoads(b).ok}

\* C12: for a JSON payload P, the response made of a fence line, P and a
\* closing fence gives the same extraction result as the response P: the
\* same returned fields, or the same failure.
C12_FenceIsTransparent ==
    \A b \in JsonBodies :
        (/\ op \in ExtractOps \cup {"parse_resume"}
         /\ pc = "done"
         /\ outs # <<>>
         /\ Last(outs) = Answer
         /\ response = Text(Fenced(b))) =>
            result = ExtractionOf(Text(b))

W_C12_FencedRecordWithFenceInName ==
    /\ op = "combined"
    /\ pc = "done"
    /\ response = Text(Fenced(Obj(<<MFenceName, MEmail, MSkills>>)))
    /\ result.status = "return"
    /\ Lookup(result.data, name, <<>>) = JsonString(Fence)

\* C13: when the fields handed to the assembler are not exactly name,
\* email and skills (one is missing, or there is another one), assembly
\* fails and no record is built; no missing field is filled with a default.
CX_C13_SchemaMismatchOnOtherFieldSet ==
    (/\ op = "parse_resume"
     /\ pc = "done"
     /\ ParsedResponse
     /\ JsonLoads(StripFence(response.text).raw).type = "dict"
     /\ ResponseKeys # {name, email, skills}) =>
        /\ result.status = "raise"
        /\ result.data = <<>>

\* every character of t is white space (the empty text included)
WhitespaceOnly(t) == \A i \in 1..Len(t) : t[i] \in PyWhitespace

\* C14: on a text that is empty or only white space verify sets is_empty
\* and leaves too_short, missing_keywords and garbage_ratio_low unset,
\* and the result does not pass; on any other text is_empty is unset.
C14_EmptyTextShortCircuits ==
    (op = "parse_resume" /\ "verify" \in Range(stages)) =>
        /\ WhitespaceOnly(text) =>
               /\ verification.is_empty
               /\ ~verification.too_short
               /\ ~verification.missing_keywords
               /\ ~verification.garbage_ratio_low
               /\ result.status = "raise"
        /\ ~WhitespaceOnly(text) => ~verification.is_empty

W_C14_WhitespaceOnlyVerified ==
    /\ op = "parse_resume"
    /\ "verify" \in Range(stages)
    /\ text = <<" ", "\n">>
    /\ verification.is_empty

\* a and b are the same letter, whatever their case
SameLetter(a, b) ==
    a = b \/ \E i \in 1..26 : {a, b} = {UpperCase[i], LowerCase[i]}

\* kw occurs in t at index i, whatever the case of the letters
OccursIgnoringCase(t, kw, i) ==
    /\ i + Len(kw) - 1 <= Len(t)
    /\ \A j \in 1..Len(kw) : SameLetter(t[i + j - 1], kw[j])

\* C15: on a text that is not only white space, too_short is set iff the
\* text has fewer than 200 characters, missing_keywords iff none of the
\* five keywords occurs in it in any letter case, garbage_ratio_low iff
\* fewer than 80% of its characters are printable (exactly 80% does not
\* set it), and the text passes iff no flag is set.
C15_FlagsAreIndependent ==
    (op = "parse_resume" /\ "verify" \in Range(stages)
        /\ ~WhitespaceOnly(text)) =>
        /\ verification.too_short <=> Len(text) < 200
        /\ verification.missing_keywords <=>
               ~\E k \in 1..Len(RESUME_KEYWORDS), i \in 1..Len(text) :
                   OccursIgnoringCase(text, RESUME_KEYWORDS[k], i)
        /\ verification.garbage_ratio_low <=>
               100 * Cardinality({i \in 1..Len(text) :
                                     text[i] \in StringPrintable})
                   < 80 * Len(text)
        /\ (pc = "done" /\ Kind(result) = "VerificationFailed") <=>
               \/ verification.too_short
               \/ verification.missing_keywords
               \/ verification.garbage_ratio_low

W_C15_AllThreeFlags ==
    /\ op = "parse_resume"
    /\ "verify" \in Range(stages)
    /\ text = Pad("U+FFFD", 3)
    /\ verification = VerificationResult(FALSE, TRUE, TRUE, TRUE)

\* C16: for an existing file the parser is chosen by the lower-cased
\* suffix: .pdf in any letter case goes to PDFParser, .docx in any letter
\* case to WordParser, and any other suffix fails with UnsupportedFormat,
\* the message listing .docx and .pdf, before any parser runs.
C16_DispatchByLowercasedSuffix ==
    (op = "parse_resume" /\ "dispatch" \in Range(stages) /\ file.exists) =>
        LET isPdf == /\ Len(file.suffix) = 4
                     /\ \A i \in 1..4 : SameLetter(file.suffix[i], ExtPdf[i])
            isDocx == /\ Len(file.suffix) = 5
                      /\ \A i \in 1..5 : SameLetter(file.suffix[i], ExtDocx[i])
        IN  /\ isPdf => parser_cls = "PDFParser" /\ Kind(result) # "UnsupportedFormat"
            /\ isDocx => parser_cls = "WordParser" /\ Kind(result) # "UnsupportedFormat"
            /\ (isPdf \/ isDocx) => (pc = "parse" \/ "parse" \in Range(stages))
            /\ ~(isPdf \/ isDocx) =>
                   /\ pc = "done"
                   /\ stages = <<"dispatch">>
                   /\ parser_cls = "None"
                   /\ Kind(result) = "UnsupportedFormat"
                   /\ Contains(result.detail, ExtPdf)
                   /\ Contains(result.detail, ExtDocx)

W_C16_UpperCasePdfParsed ==
    /\ op = "parse_resume"
    /\ file.exists
    /\ file.suffix = <<".", "P", "D", "F">>
    /\ parser_cls = "PDFParser"
    /\ "parse" \in Range(stages)

\* C17: the command line run ends with exit code 0 exactly when the resume
\* was parsed, with exit code 1 on every handled failure, and with exit
\* code 130 through sys.exit whenever the user interrupted it.
CX_C17_ExitCodes ==
    (op = "main" /\ pc = "done") =>
        /\ exit.how = "sys.exit"
        /\ exit.code \in {0, 1, 2, 130}
        /\ exit.code = 0 <=> result.status = "return"
        /\ exit.exc = "KeyboardInterrupt" <=> exit.code = 130

\* C18: an exception raised at any step after argument parsing, the
\* construction of the extractor included, is caught in main, which then
\* ends through sys.exit; none leaves main unhandled.
CX_C18_NoExceptionLeavesMain ==
    (op = "main" /\ pc = "done" /\ result.status = "raise") =>
        /\ exit.how = "sys.exit"
        /\ exit.code = 1
        /\ result.exc \notin OSErrorFamily => exit.panel = "Unexpected Error"

\* C19: without the API key the run fails when the extraction client is
\* constructed: main ends with exit code 1 on the EnvironmentError of the
\* constructor, before any text is extracted and before any remote call;
\* no extract or parse_resume call raises it later.
C19_MissingCredentialAtStartup ==
    /\ (op = "main" /\ pc = "done" /\ exit.panel \notin
            {"usage", "No file provided", "File not found", "Not a file",
             "Unsupported format"}
        /\ exit.exc # "KeyboardInterrupt" /\ ~env.api_key) =>
           /\ result.status = "raise"
           /\ result.exc = "EnvironmentError"
           /\ result.msg = MsgNoKey
           /\ exit = SysExit(1, "Missing API Key")
           /\ calls = 0
           /\ stages = <<>>
           /\ text = <<>>
    /\ op = "main" => calls = 0 /\ stages = <<>>
    /\ op # "main" => result.exc # "EnvironmentError"

W_C19_NoKeyExitsOne ==
    /\ op = "main"
    /\ pc = "done"
    /\ ~env.api_key
    /\ result.exc = "EnvironmentError"
    /\ exit = SysExit(1, "Missing API Key")

\* C20: whatever the outcomes of the remote calls, _call_with_retry makes at
\* most max_retries + 1 = 6 calls and at most 5 waits, and it ends either
\* by returning the response of a call that succeeded or by raising; it
\* never ends without a response.
C20_RetryTerminates ==
    op \in ExtractOps =>
        /\ calls = Len(outs)
        /\ calls <= max_retries + 1
        /\ Len(sleeps) <= max_retries
        /\ pc = "call" =>
              /\ calls <= max_retries
              /\ attempt = calls
              /\ Len(sleeps) = calls
        /\ (pc # "call" /\ calls > 0) =>
              CallWithRetry(outs).status \in {"return", "raise"}
        /\ pc = "response" => calls > 0 /\ Last(outs) = Answer
        /\ (pc = "done" /\ calls > 0 /\ Last(outs) # Answer) =>
              /\ result.status = "raise"
              /\ result = CallWithRetry(outs).res

W_C20_SixthCallAnswersAfterMixedFailures ==
    /\ op \in ExtractOps
    /\ pc = "response"
    /\ calls = max_retries + 1
    /\ Len(sleeps) = max_retries
    /\ \E i \in 1..Len(outs) : outs[i] = RateLimit
    /\ \E i \in 1..Len(outs) : outs[i] \in ServerErrors
    /\ Last(outs) = Answer

\* the outcomes after which _call_with_retry goes round again
Retryable == {RateLimit} \cup ServerErrors

\* C21: rate-limit and server failures share one retry budget and one
\* backoff: whenever the retry loop is about to call, after a failed
\* attempts of either kind in any mix, the next wait is 5 * 2^a, a is at
\* most 5 and the waits made so far are 5, 10, ..., 5 * 2^(a-1); every
\* extraction call, a later one included, enters the loop at attempt 0 with
\* delay 5 and no wait made.
C21_OneBudgetOneBackoff ==
    (op \in ExtractOps /\ pc = "call") =>
        /\ attempt = Len(outs)
        /\ attempt <= max_retries
        /\ \A i \in 1..Len(outs) : outs[i] \in Retryable
        /\ delay = initial_delay * 2 ^ attempt
        /\ sleeps = Backoff(attempt)
        /\ calls = 0 => attempt = 0 /\ delay = initial_delay /\ sleeps = <<>>

W_C21_SecondCallMixedFailures ==
    /\ op \in ExtractOps
    /\ pc = "call"
    /\ invocations = 2
    /\ attempt = 3
    /\ delay = 40
    /\ \E i \in 1..Len(outs) : outs[i] = RateLimit
    /\ \E i \in 1..Len(outs) : outs[i] \in ServerErrors

====
